---- MODULE Spec2Model ----
(***************************************************************************)
(* Model of the next-image-cache-cleaner eviction engine:                  *)
(*   DirectoryWorker (scan, size accounting, TTL and capacity eviction)    *)
(*   and the Watcher callback that drives capacity eviction.               *)
(* A file name is a sequence of one-character strings, so that             *)
(* fileName.split('.')[1] and parseInt are computed as the code does.      *)
(***************************************************************************)
EXTENDS Integers, Sequences, FiniteSets, TLC

(***************************************************************************)
(* Bounds of the model.                                                    *)
(***************************************************************************)
\* largest number of files present under the cache root at one time
MaxFiles == 2
\* Date.now() is read from 1..MaxNow
MaxNow == 3
MaxEvents == 3
MaxTicks == 2
MaxAdvances == 4

(***************************************************************************)
(* The cache directory: directories are paths relative to the root (the    *)
(* root is the empty path), files are drawn from a fixed table.            *)
(***************************************************************************)
Root == <<>>
DirA == <<"a">>
DirB == <<"b">>
DirAS == <<"a", "s">>

\* "60.1.j": <maxAge>.<expireAt>.<ext>
NameExp1 == <<"6", "0", ".", "1", ".", "j">>
NameExp2 == <<"6", "0", ".", "2", ".", "j">>
NameExp0 == <<"6", "0", ".", "0", ".", "j">>
NameExpNeg == <<"6", "0", ".", "-", "1", ".", "j">>
NameExpX == <<"6", "0", ".", "x", ".", "j">>
NameExp2x == <<"6", "0", ".", " ", "2", "x", ".", "j">>
NameNoSeg == <<"6", "0">>

File(d, n, s, b) == [dir |-> d, name |-> n, size |-> s, birth |-> b]

\* The cache layouts explored: each is the set of files the image optimizer
\* may write during one run (File(dir, name, size, birthtimeMs)).
LayoutSiblings ==
  { File(DirA, NameExp1, 100, 100),
    File(DirA, NameExp2x, 200, 200),
    File(DirB, NameExp2, 200, 100) }

LayoutUnparsable ==
  { File(DirA, NameExp1, 100, 100),
    File(DirA, NameExpX, 100, 200),
    File(DirAS, NameNoSeg, 200, 300) }

LayoutRoot ==
  { File(Root, NameExp1, 100, 100),
    File(Root, NameExp2, 200, 200),
    File(DirA, NameExpNeg, 200, 200) }

LayoutZero ==
  { File(DirB, NameExp0, 100, 100),
    File(DirB, NameExp1, 200, 100),
    File(DirAS, NameExpX, 0, 50) }

Layouts == { LayoutSiblings, LayoutUnparsable, LayoutRoot, LayoutZero }

\* limits passed to deleteFilesOverLimit by a direct caller
Limits == {150, 250, 300}

\* (directoryKbSize, fullnessPercent in hundredths) given to the Watcher
WatcherConfigs == { [kb |-> 1, pct |-> 29] }

(***************************************************************************)
(* Pure helpers.                                                           *)
(***************************************************************************)
\* d is p itself or lies beneath p
IsUnder(d, p) == Len(p) <= Len(d) /\ SubSeq(d, 1, Len(p)) = p

RECURSIVE SumSizesSeq(_)
SumSizesSeq(s) == IF s = <<>> THEN 0 ELSE Head(s).size + SumSizesSeq(Tail(s))

RECURSIVE SumSizes(_)
SumSizes(S) ==
  IF S = {} THEN 0
  ELSE LET f == CHOOSE x \in S : TRUE IN f.size + SumSizes(S \ {f})

Range(s) == { s[i] : i \in 1..Len(s) }

\* all orders in which the files of S can be pushed
Perms(S) ==
  { s \in [1..Cardinality(S) -> S] : \A i, j \in 1..Cardinality(S) : i # j => s[i] # s[j] }

\* String.prototype.split('.'): the segments between the dots
RECURSIVE SplitDot(_, _, _)
SplitDot(name, i, cur) ==
  IF i > Len(name) THEN <<cur>>
  ELSE IF name[i] = "." THEN <<cur>> \o SplitDot(name, i + 1, <<>>)
  ELSE SplitDot(name, i + 1, Append(cur, name[i]))

Split(name) == SplitDot(name, 1, <<>>)

Digits == {"0", "1", "2", "3", "4", "5", "6", "7", "8", "9"}
DigitVal(c) ==
  CASE c = "0" -> 0 [] c = "1" -> 1 [] c = "2" -> 2 [] c = "3" -> 3 [] c = "4" -> 4
    [] c = "5" -> 5 [] c = "6" -> 6 [] c = "7" -> 7 [] c = "8" -> 8 [] c = "9" -> 9

NaN == [nan |-> TRUE, val |-> 0]
Num(v) == [nan |-> FALSE, val |-> v]

\* the value of the longest prefix of decimal digits of s from i on
RECURSIVE DigitsPrefix(_, _, _, _)
DigitsPrefix(s, i, acc, seen) ==
  IF i <= Len(s) /\ s[i] \in Digits
  THEN DigitsPrefix(s, i + 1, acc * 10 + DigitVal(s[i]), TRUE)
  ELSE [seen |-> seen, val |-> acc]

RECURSIVE SkipSpaces(_, _)
SkipSpaces(s, i) == IF i <= Len(s) /\ s[i] = " " THEN SkipSpaces(s, i + 1) ELSE i

\* a parse that answers -1 instead of NaN when there is no number
ParseIntSentinel(hasSeg, seg) ==
  IF ~hasSeg THEN Num(0 - 1)
  ELSE LET i == SkipSpaces(seg, 1)
           neg == i <= Len(seg) /\ seg[i] = "-"
           j == IF i <= Len(seg) /\ seg[i] \in {"-", "+"} THEN i + 1 ELSE i
           d == DigitsPrefix(seg, j, 0, FALSE)
       IN IF ~d.seen THEN Num(0 - 1) ELSE Num(IF neg THEN 0 - d.val ELSE d.val)

\* parseInt(seg): leading white space, an optional sign, then decimal digits;
\* NaN when no digit follows.  hasSeg is FALSE when split('.')[1] is undefined.
ParseInt(hasSeg, seg) ==
  IF ~hasSeg THEN NaN
  ELSE LET i == SkipSpaces(seg, 1)
           neg == i <= Len(seg) /\ seg[i] = "-"
           j == IF i <= Len(seg) /\ seg[i] \in {"-", "+"} THEN i + 1 ELSE i
           d == DigitsPrefix(seg, j, 0, FALSE)
       IN IF ~d.seen THEN NaN ELSE Num(IF neg THEN 0 - d.val ELSE d.val)

\* DirectoryWorker.#parseFile
parseFile(fileName) ==
  LET parts == Split(fileName)
  IN ParseInt(Len(parts) >= 2, IF Len(parts) >= 2 THEN parts[2] ELSE <<>>)

\* the try block of #parseFile throws: fileName.split('.')[1] and parseInt
\* throw for no string, parseInt(undefined) is NaN
parseFileThrows(fileName) == FALSE

\* the entries logger.warn writes from the catch block of #parseFile while the
\* loop of deleteOutdatedFiles goes through fs
parseWarnings(fs) ==
  Cardinality({ i \in 1..Len(fs) : parseFileThrows(fs[i].name) })

\* an expiry test that also takes expireAt = Date.now() as outdated
IsOutdatedInclusive(f, now) ==
  LET expireAt == parseFile(f.name)
  IN (~expireAt.nan /\ expireAt.val # 0) /\ expireAt.val <= now

\* expireAt && expireAt < Date.now()
IsOutdated(f, now) ==
  LET expireAt == parseFile(f.name)
  IN (~expireAt.nan /\ expireAt.val # 0) /\ expireAt.val < now

\* elements of s in order, those in S left out: files.filter((f) => f !== file)
Without(s, S) == SelectSeq(s, LAMBDA f : f \notin S)

\* a sort that puts the newest file first
RECURSIVE InsertByBirthNewestFirst(_, _)
InsertByBirthNewestFirst(sorted, f) ==
  IF sorted = <<>> THEN <<f>>
  ELSE IF f.birth - Head(sorted).birth <= 0
       THEN <<Head(sorted)>> \o InsertByBirthNewestFirst(Tail(sorted), f)
       ELSE <<f>> \o sorted

\* sortedFiles: Array.prototype.sort is stable, oldest birthtimeMs first
RECURSIVE InsertByBirth(_, _)
InsertByBirth(sorted, f) ==
  IF sorted = <<>> THEN <<f>>
  ELSE IF Head(sorted).birth - f.birth <= 0
       THEN <<Head(sorted)>> \o InsertByBirth(Tail(sorted), f)
       ELSE <<f>> \o sorted

RECURSIVE sortedFiles(_)
sortedFiles(fs) ==
  IF fs = <<>> THEN <<>>
  ELSE InsertByBirth(sortedFiles(SubSeq(fs, 1, Len(fs) - 1)), fs[Len(fs)])

\* a loop that tests the accumulated size before it adds the file's size
RECURSIVE overLimitLoopLate(_, _, _, _)
overLimitLoopLate(sorted, i, acc, excessSize) ==
  IF i > Len(sorted) THEN [n |-> i - 1, acc |-> acc]
  ELSE IF acc + sorted[i].size >= excessSize
       THEN [n |-> i, acc |-> acc]
       ELSE overLimitLoopLate(sorted, i + 1, acc + sorted[i].size, excessSize)

\* the for loop of deleteFilesOverLimit: n files scheduled, acc bytes accumulated
RECURSIVE overLimitLoop(_, _, _, _)
overLimitLoop(sorted, i, acc, excessSize) ==
  IF i > Len(sorted) THEN [n |-> i - 1, acc |-> acc]
  ELSE LET accumulatedSize == acc + sorted[i].size
       IN IF accumulatedSize >= excessSize
          THEN [n |-> i, acc |-> accumulatedSize]
          ELSE overLimitLoop(sorted, i + 1, accumulatedSize, excessSize)

\* an early return that lets a total equal to the limit through
overLimitPlanStrict(fs, total, limit) ==
  LET excessSize == total - limit
  IN IF excessSize < 0 THEN [victims |-> <<>>, ret |-> 0]
     ELSE LET sorted == sortedFiles(fs)
              r == overLimitLoop(sorted, 1, 0, excessSize)
          IN [victims |-> SubSeq(sorted, 1, r.n), ret |-> r.acc]

\* the files deleteFilesOverLimit schedules, in order, and the value it returns
overLimitPlan(fs, total, limit) ==
  LET excessSize == total - limit
  IN IF excessSize <= 0 THEN [victims |-> <<>>, ret |-> 0]
     ELSE LET sorted == sortedFiles(fs)
              r == overLimitLoop(sorted, 1, 0, excessSize)
          IN [victims |-> SubSeq(sorted, 1, r.n), ret |-> r.acc]

\* the files deleteOutdatedFiles schedules, in the order of the list
outdatedPlan(fs, now) == SelectSeq(fs, LAMBDA f : IsOutdated(f, now))

\* a count of the deletions scheduled, whatever their outcome
deletedCountScheduled(rms) == Len(rms)

\* results.filter((r) => r.status === 'fulfilled').length
deletedCount(rms) == Cardinality({ i \in 1..Len(rms) : rms[i].ok })

\* a limit that drops the fraction instead of rounding it
limitSizeFloor(c) == (c.kb * 1024 * c.pct) \div 100

\* Math.round(directoryKbSize * 1024 * fullnessPercent), fullnessPercent = pct / 100
limitSizeOf(c) == (2 * c.kb * 1024 * c.pct + 100) \div 200

\* fs.rm(dir, {recursive: true, force: true}) for every settled deletion that
\* succeeded: the directory and all beneath it are gone (a deletion that
\* failed is taken to have removed nothing)
diskAfterRm(dsk, rms) ==
  { f \in dsk : ~\E i \in 1..Len(rms) : rms[i].ok /\ IsUnder(f.dir, rms[i].dir) }

rootAfterRm(rootOk, rms) ==
  rootOk /\ ~\E i \in 1..Len(rms) : rms[i].ok /\ rms[i].dir = Root

\* the deletions issued for the victims, with the outcome of each
rmCalls(victims, ok) ==
  [ i \in 1..Len(victims) |-> [file |-> victims[i], dir |-> victims[i].dir, ok |-> ok[i]] ]

\* return value null of deleteOutdatedFiles
Null == -1

\* a catch block that logs nothing and throws the error again
outdatedOnErrorRethrow == [ret |-> Null, rejected |-> TRUE, errors |-> 0]

\* catch (error) { this.#logger.error(error); return null }
outdatedOnError == [ret |-> Null, rejected |-> FALSE, errors |-> 1]

(***************************************************************************)
(* State.                                                                  *)
(***************************************************************************)
VARIABLES
  layout,      \* the files the image optimizer may write in this run
  disk,        \* the regular files under the cache root
  rootExists,  \* the cache root directory exists
  files,       \* DirectoryWorker.#files
  totalSize,   \* DirectoryWorker.#totalSize
  cfg,         \* the Watcher's directoryKbSize and fullnessPercent
  last,        \* the last completed operation: its inputs, deletions and result
  clock,       \* time in ms since the Watcher was started
  timers,      \* the armed timeouts, each named by the time it is due
  cleanupTimer,\* Watcher.#cleanupTimer: the handle of the last timeout set
  logger,      \* what Watcher.#logger is: pino at debug, pino at info, console
  running,     \* the trigger callbacks in progress, by the step they are at
  obs,         \* what has been observed of the triggers so far
  pass,        \* the eviction pass whose deletions are settling one by one
  params,      \* the parameters handed to new CacheCleaner(params)
  cleaner,     \* what became of the construction, and the triggers started
  scan,        \* the scan each Watcher callback has in progress, stat by stat
  concurrencyLimit, \* DirectoryWorker.#concurrencyLimit
  queueConcurrency, \* the concurrency of DirectoryWorker.#queue
  env,         \* process.env: the NICC_ variables
  build,       \* which of the versions of parseInputArgs the build holds
  config,      \* what parseInputArgs() returned or threw
  job,         \* the pass of each trigger callback, step by step
  snap         \* what the last scan listed, and the records evicted since

engineVars == <<layout, disk, rootExists, files, totalSize, cfg, last>>
triggerVars == <<clock, timers, cleanupTimer, logger, running, obs>>
passVars == <<pass>>
configVars == <<params, cleaner>>
scanVars == <<scan, concurrencyLimit, queueConcurrency>>
envVars == <<env, build, config>>
overlapVars == <<job, snap>>
vars == <<engineVars, triggerVars, passVars, configVars, scanVars, envVars, overlapVars>>

\* what the engine model leaves alone, and what the trigger model leaves alone
nonEngineVars == <<triggerVars, passVars, configVars, scanVars, envVars, overlapVars>>
nonTriggerVars == <<engineVars, passVars, configVars, scanVars, envVars, overlapVars>>
nonConfigVars == <<engineVars, triggerVars, passVars, scanVars, envVars, overlapVars>>
nonEnvVars == <<engineVars, triggerVars, passVars, configVars, scanVars, overlapVars>>
nonEngineOverlapVars == <<triggerVars, passVars, configVars, scanVars, envVars>>
nonEnginePassVars == <<triggerVars, configVars, scanVars, envVars, overlapVars>>
nonEngineScanVars == <<triggerVars, passVars, configVars, envVars, overlapVars>>

Op(op, by, limit, now, total0, files0, disk0, ret, threw, rms) ==
  [op |-> op, by |-> by, limit |-> limit, now |-> now, total0 |-> total0,
   files0 |-> files0, disk0 |-> disk0, ret |-> ret, threw |-> threw, rms |-> rms,
   rejected |-> threw, errors |-> 0, warns |-> 0]

limitSize == limitSizeOf(cfg)

\* #cleanupTimer = null
NoTimer == 0

NothingRunning == [eval |-> 0, size |-> 0, ttl |-> 0]

NothingObserved ==
  [events |-> 0, lastEventAt |-> 0, chains |-> 0, starts |-> 0, startGap |-> 0,
   unevaluated |-> FALSE, ticks |-> 0, sizeScans |-> 0, ttlRuns |-> 0, tickErrors |-> 0,
   escaped |-> FALSE]

\* the triggers before any event, for the model of the engine alone
TriggersIdle ==
  /\ clock = 0
  /\ timers = {}
  /\ cleanupTimer = NoTimer
  /\ logger = "info"
  /\ running = NothingRunning
  /\ obs = NothingObserved

\* JavaScript values of the numeric parameters: undefined, NaN, a number
\* (fullnessPercent is held in hundredths)
JsUndefined == [t |-> "undefined", nan |-> FALSE, val |-> 0]
JsNaN == [t |-> "number", nan |-> TRUE, val |-> 0]
JsNumber(v) == [t |-> "number", nan |-> FALSE, val |-> v]

\* an absent string parameter
NoString == "<undefined>"

\* typeof x
typeOf(x) == x.t

\* Number.isNaN(x)
isNaN(x) == x.nan

\* the truth value of a string: undefined and '' are falsy
truthy(str) == str \notin {NoString, ""}

\* !!x for a numeric parameter: undefined, NaN and 0 are falsy
truthyNumber(x) == typeOf(x) = "number" /\ ~isNaN(x) /\ x.val # 0

\* the parameters of the tests of CacheCleaner
ValidParams ==
  [directorySize |-> JsNumber(1024), fullnessPercent |-> JsNumber(50),
   cronString |-> "*/5 * * * *", directoryPath |-> "/valid/path"]

\* before new CacheCleaner(params)
NotConstructed ==
  [state |-> "new", error |-> "none",
   mods |-> [byCron |-> FALSE, byFullnessPercent |-> FALSE],
   watcher |-> FALSE, started |-> {}]

ConfigIdle ==
  /\ params = ValidParams
  /\ cleaner = NotConstructed

\* the callbacks of the Watcher that scan through its one DirectoryWorker
Callers == {"tick", "timeout"}

\* params?.concurrencyLimit ?? 100
DefaultConcurrency == 100

\* a caller that has not scanned yet
NoScan ==
  [pc |-> "idle", kind |-> "none", disk0 |-> {}, listed |-> {}, queued |-> {},
   running |-> {}, threw |-> FALSE, ret |-> 0, out |-> <<>>, alone |-> TRUE,
   refill |-> FALSE]

ScansIdle ==
  /\ scan = [c \in Callers |-> NoScan]
  /\ concurrencyLimit = DefaultConcurrency
  /\ queueConcurrency = DefaultConcurrency

\* an environment variable: unset, or set to a string of characters
Unset == [set |-> FALSE, str |-> <<>>]
EnvString(str) == [set |-> TRUE, str |-> str]

\* parseInputArgs() has not been called
NotParsed ==
  [state |-> "none", directorySize |-> JsUndefined, fullnessPercent |-> JsUndefined]

EnvIdle ==
  /\ env = [dir |-> EnvString(<<"/">>), capacity |-> Unset, percent |-> Unset]
  /\ build = "parseOptionalNumber"
  /\ config = NotParsed

\* a trigger callback that has not run
NoJob ==
  [pc |-> "idle", todo |-> {}, size |-> 0, rms |-> <<>>, ret |-> 0, errors |-> 0,
   threw |-> FALSE, gone |-> {}, whole |-> TRUE]

OverlapIdle ==
  /\ job = [c \in Callers |-> NoJob]
  /\ snap = [listed |-> {}, evicted |-> {}]

\* no eviction pass has been started
NoPass == [pc |-> "idle", op |-> "none", planned |-> 0, rms |-> <<>>, ret |-> 0]

Init ==
  /\ layout \in Layouts
  /\ disk \in { S \in SUBSET layout : Cardinality(S) <= MaxFiles }
  /\ rootExists = TRUE
  /\ files = <<>>
  /\ totalSize = 0
  /\ cfg \in WatcherConfigs
  /\ last = Op("none", "none", 0, 0, 0, <<>>, {}, 0, FALSE, <<>>)
  /\ TriggersIdle
  /\ pass = NoPass
  /\ ConfigIdle
  /\ ScansIdle
  /\ OverlapIdle
  /\ EnvIdle

\* at most one listed file whose stat fails in a scan
StatFailures == { S \in SUBSET disk : Cardinality(S) <= 1 }

(***************************************************************************)
(* DirectoryWorker operations, called directly.                            *)
(***************************************************************************)
\* the list after a scan: reset, then one push per file whose stat succeeded
scannedFiles(rootOk, ord) == IF rootOk THEN ord ELSE <<>>

\* the total after a size scan
scannedSize(rootOk, dsk, bad) == IF rootOk THEN SumSizes(dsk \ bad) ELSE 0

scanThrows(rootOk, bad) == ~rootOk \/ bad # {}

UpdateAllFiles ==
  \E bad \in StatFailures : \E ord \in Perms(disk \ bad) :
    /\ files' = scannedFiles(rootExists, ord)
    /\ last' = Op("updateAllFiles", "api", 0, 0, totalSize, <<>>, disk, 0,
                  scanThrows(rootExists, bad), <<>>)
    /\ UNCHANGED <<layout, disk, rootExists, totalSize, cfg, nonEngineVars>>

GetDirectorySize ==
  \E bad \in StatFailures :
    /\ totalSize' = scannedSize(rootExists, disk, bad)
    /\ last' = Op("getDirectorySize", "api", 0, 0, totalSize, <<>>, disk,
                  scannedSize(rootExists, disk, bad), scanThrows(rootExists, bad), <<>>)
    /\ UNCHANGED <<layout, disk, rootExists, files, cfg, nonEngineVars>>

\* deleteOutdatedFiles, reading Date.now() = now
DeleteOutdatedFiles ==
  \E now \in 1..MaxNow : \E bad \in StatFailures : \E ord \in Perms(disk \ bad) :
    LET scanned == scannedFiles(rootExists, ord)
    IN IF scanThrows(rootExists, bad)
       THEN /\ files' = scanned
            /\ last' = [ Op("deleteOutdatedFiles", "api", 0, 0, totalSize, scanned, disk,
                             outdatedOnError.ret, TRUE, <<>>)
                          EXCEPT !.rejected = outdatedOnError.rejected,
                                 !.errors = outdatedOnError.errors ]
            /\ UNCHANGED <<layout, disk, rootExists, totalSize, cfg, nonEngineVars>>
       ELSE LET victims == outdatedPlan(scanned, now)
            IN \E ok \in [1..Len(victims) -> BOOLEAN] :
                 LET rms == rmCalls(victims, ok)
                 IN /\ files' = Without(scanned, Range(victims))
                    /\ disk' = diskAfterRm(disk, rms)
                    /\ rootExists' = rootAfterRm(rootExists, rms)
                    /\ last' = [ Op("deleteOutdatedFiles", "api", 0, now, totalSize,
                                     scanned, disk, deletedCount(rms), FALSE, rms)
                                  EXCEPT !.warns = parseWarnings(scanned) ]
                    /\ UNCHANGED <<layout, totalSize, cfg, nonEngineVars>>

\* the effect of deleteFilesOverLimit(limit) on a worker whose total is total
\* a pass that lists the directory again before it selects its files
OverLimitPassRescan(limit, total, by) ==
  LET fresh == CHOOSE ord \in Perms(disk) : TRUE
      plan == overLimitPlan(fresh, total, limit)
  IN \E ok \in [1..Len(plan.victims) -> BOOLEAN] :
       LET rms == rmCalls(plan.victims, ok)
       IN /\ files' = Without(fresh, Range(plan.victims))
          /\ disk' = diskAfterRm(disk, rms)
          /\ rootExists' = rootAfterRm(rootExists, rms)
          /\ last' = Op("deleteFilesOverLimit", by, limit, 0, total, files, disk,
                        plan.ret, FALSE, rms)

OverLimitPass(limit, total, by) ==
  LET plan == overLimitPlan(files, total, limit)
  IN \E ok \in [1..Len(plan.victims) -> BOOLEAN] :
       LET rms == rmCalls(plan.victims, ok)
       IN /\ files' = Without(files, Range(plan.victims))
          /\ disk' = diskAfterRm(disk, rms)
          /\ rootExists' = rootAfterRm(rootExists, rms)
          /\ last' = Op("deleteFilesOverLimit", by, limit, 0, total, files, disk,
                        plan.ret, FALSE, rms)

DeleteFilesOverLimit ==
  \E limit \in Limits :
    /\ OverLimitPass(limit, totalSize, "api")
    /\ UNCHANGED <<layout, totalSize, cfg, nonEngineVars>>

(***************************************************************************)
(* Watcher: the debounced callback of #onAddFile.                          *)
(***************************************************************************)
CleanupTimerFired ==
  \E bad \in StatFailures :
    LET currentSize == scannedSize(rootExists, disk, bad)
    IN /\ totalSize' = currentSize
       /\ UNCHANGED <<layout, cfg, nonEngineVars>>
       /\ IF scanThrows(rootExists, bad) \/ ~(currentSize >= limitSize)
          THEN /\ last' = Op("getDirectorySize", "limit", limitSize, 0, totalSize, <<>>,
                             disk, currentSize, scanThrows(rootExists, bad), <<>>)
               /\ UNCHANGED <<disk, rootExists, files>>
          ELSE OverLimitPass(limitSize, currentSize, "limit")

(***************************************************************************)
(* The environment: the image optimizer writes a cache file.               *)
(***************************************************************************)
CreateFile ==
  \E f \in layout \ disk :
    /\ Cardinality(disk) < MaxFiles
    /\ disk' = disk \cup {f}
    /\ rootExists' = TRUE
    /\ UNCHANGED <<layout, files, totalSize, cfg, last, nonEngineVars>>

Next ==
  \/ UpdateAllFiles
  \/ GetDirectorySize
  \/ DeleteOutdatedFiles
  \/ DeleteFilesOverLimit
  \/ CleanupTimerFired
  \/ CreateFile

Spec == Init /\ [][Next]_vars

(***************************************************************************)
(* An eviction pass step by step: the loop pushes one fs.rm promise per     *)
(* victim, the promises settle one by one in any order, and the pass        *)
(* returns when the join on deletionPromises resolves.                      *)
(***************************************************************************)
\* deletionPromises after the loop: one pending fs.rm per victim
issued(victims) ==
  [ i \in 1..Len(victims) |->
      [file |-> victims[i], dir |-> victims[i].dir, st |-> "pending"] ]

\* the outcomes of the deletions, as the results array of the join holds them
settledCalls(rms) ==
  [ i \in 1..Len(rms) |->
      [file |-> rms[i].file, dir |-> rms[i].dir, ok |-> rms[i].st = "ok"] ]

\* Promise.all(deletionPromises): resolved by the first rejection as well
allJoined(rms) ==
  \/ \E i \in 1..Len(rms) : rms[i].st = "failed"
  \/ \A i \in 1..Len(rms) : rms[i].st = "ok"

\* await Promise.allSettled(deletionPromises)
allSettled(rms) == \A i \in 1..Len(rms) : rms[i].st # "pending"

\* deleteOutdatedFiles up to its await on the deletions
IssueOutdated ==
  /\ pass.pc # "settling"
  /\ \E now \in 1..MaxNow : \E bad \in StatFailures : \E ord \in Perms(disk \ bad) :
       LET scanned == scannedFiles(rootExists, ord)
           victims == outdatedPlan(scanned, now)
       IN IF scanThrows(rootExists, bad)
          THEN /\ files' = scanned
               /\ pass' = [pc |-> "reported", op |-> "deleteOutdatedFiles", planned |-> 0,
                           rms |-> <<>>, ret |-> outdatedOnError.ret]
          ELSE /\ files' = Without(scanned, Range(victims))
               /\ pass' = [pc |-> "settling", op |-> "deleteOutdatedFiles",
                           planned |-> Len(victims), rms |-> issued(victims), ret |-> 0]
  /\ UNCHANGED <<layout, disk, rootExists, totalSize, cfg, last, nonEnginePassVars>>

\* deleteFilesOverLimit(limit) up to its await on the deletions
IssueOverLimit ==
  /\ pass.pc # "settling"
  /\ \E limit \in Limits :
       LET plan == overLimitPlan(files, totalSize, limit)
       IN /\ files' = Without(files, Range(plan.victims))
          /\ pass' = [pc |-> "settling", op |-> "deleteFilesOverLimit",
                      planned |-> Len(plan.victims), rms |-> issued(plan.victims),
                      ret |-> plan.ret]
  /\ UNCHANGED <<layout, disk, rootExists, totalSize, cfg, last, nonEnginePassVars>>

\* one fs.rm(parentPath, {recursive: true, force: true}) settles
SettleRm ==
  /\ pass.pc = "settling"
  /\ \E i \in 1..Len(pass.rms) : \E ok \in BOOLEAN :
       /\ pass.rms[i].st = "pending"
       /\ pass' = [pass EXCEPT !.rms[i].st = IF ok THEN "ok" ELSE "failed"]
       /\ disk' = diskAfterRm(disk, <<[dir |-> pass.rms[i].dir, ok |-> ok]>>)
       /\ rootExists' = rootAfterRm(rootExists, <<[dir |-> pass.rms[i].dir, ok |-> ok]>>)
  /\ UNCHANGED <<layout, files, totalSize, cfg, last, nonEnginePassVars>>

\* the join resolves and the pass returns its result
ReportPass ==
  /\ pass.pc = "settling"
  /\ allSettled(pass.rms)
  /\ pass' = [pass EXCEPT !.pc = "reported",
                          !.ret = IF pass.op = "deleteOutdatedFiles"
                                  THEN deletedCount(settledCalls(pass.rms))
                                  ELSE pass.ret]
  /\ UNCHANGED <<engineVars, nonEnginePassVars>>

NextPass ==
  \/ GetDirectorySize
  \/ IssueOutdated
  \/ IssueOverLimit
  \/ SettleRm
  \/ ReportPass
  \/ CreateFile

SpecPass == Init /\ [][NextPass]_vars

(***************************************************************************)
(* A scan stat by stat: the listing hands one task per file to the queue,   *)
(* the queue starts a task when fewer than its concurrency are running,     *)
(* each task adds to #totalSize or pushes to #files when its stat returns,  *)
(* and the scan returns when the join on its tasks resolves.                *)
(***************************************************************************)
\* params.concurrencyLimit left out
NoLimit == 0

\* the limits given to the constructor, and those given to the setter
ConstructorLimits == {NoLimit, 1}
SetterLimits == {1, 2}

\* params?.concurrencyLimit ?? 100, for the queue and for #concurrencyLimit
constructorLimit(given) == IF given = NoLimit THEN DefaultConcurrency ELSE given

\* a setter that updates the field and leaves the queue as it is
setConcurrencyLimitFieldOnly(n) == [limit |-> n, queue |-> queueConcurrency]

\* this.#concurrencyLimit = n; this.#queue.concurrency = n
setConcurrencyLimit(n) == [limit |-> n, queue |-> n]

\* the scans a callback makes: #needToEraseFiles calls getDirectorySize, the
\* cron callback getDirectorySize and, in deleteOutdatedFiles, updateAllFiles
KindsOf(c) == IF c = "timeout" THEN {"size"} ELSE {"size", "files"}

Other(c) == CHOOSE o \in Callers : o # c

\* tasks of the scan of c are still in the queue or running
tasksLeft(c) == scan[c].queued # {} \/ scan[c].running # {}

active(c) == scan[c].pc = "joining" \/ tasksLeft(c)

\* the number of queued tasks the queue is running
inFlight == Cardinality(scan["tick"].running) + Cardinality(scan["timeout"].running)

\* the name of a symbolic link
LinkName == <<"l">>

\* an entry of the recursive directory handle
Dirent(k, d, n, s, b) == [kind |-> k, dir |-> d, name |-> n, size |-> s, birth |-> b]

\* the directories beneath the root that hold the files of dsk
dirsOf(dsk) == UNION { { SubSeq(f.dir, 1, k) : k \in 1..Len(f.dir) } : f \in dsk }

\* fs.opendir(dir, {recursive: true}): the files at every depth, the
\* directories that hold them, and a symbolic link in each directory
direntsOf(dsk) ==
  { Dirent("file", f.dir, f.name, f.size, f.birth) : f \in dsk }
    \cup { Dirent("dir", SubSeq(d, 1, Len(d) - 1), <<d[Len(d)]>>, 0, 0) : d \in dirsOf(dsk) }
    \cup { Dirent("link", d, LinkName, 0, 0) : d \in dirsOf(dsk) }

\* a traversal that yields every entry
traverseDirectoryAll(ents) == ents

\* for await (const entry of dirHandle) if (entry.isFile()) yield
traverseDirectory(ents) == { e \in ents : e.kind = "file" }

\* the files the loop of a scan hands to the queue
listing(dsk) ==
  { File(e.dir, e.name, e.size, e.birth) : e \in traverseDirectory(direntsOf(dsk)) }

\* a scan that returns once its last task has been started
scanJoinedStarted(sc) == sc.queued = {}

\* await Promise.all(sizeTasks) / await Promise.all(fileTasks), no task rejected
scanJoined(sc) == sc.queued = {} /\ sc.running = {}

\* a scan that adds to the list the previous scan left
filesKeptAtScanStart(fs) == fs

\* this.#files = [] on entry to updateAllFiles
filesAtScanStart(fs) == <<>>

\* one layout with files at depth 1 and at depth 2: a scan reads only the
\* place and the size of a file
InitScan ==
  /\ layout = LayoutUnparsable
  /\ disk \in { S \in SUBSET layout : Cardinality(S) <= MaxFiles }
  /\ rootExists = TRUE
  /\ files = <<>>
  /\ totalSize = 0
  /\ cfg \in WatcherConfigs
  /\ last = Op("none", "none", 0, 0, 0, <<>>, {}, 0, FALSE, <<>>)
  /\ TriggersIdle
  /\ pass = NoPass
  /\ ConfigIdle
  /\ EnvIdle
  /\ OverlapIdle
  /\ scan = [c \in Callers |-> NoScan]
  /\ \E given \in ConstructorLimits :
       /\ concurrencyLimit = constructorLimit(given)
       /\ queueConcurrency = constructorLimit(given)

\* getDirectorySize() / updateAllFiles() is called: the reset, then the
\* listing, which throws when the root is missing
StartScan(c) ==
  /\ ~active(c)
  /\ \E kind \in KindsOf(c) :
       /\ IF kind = "size"
          THEN totalSize' = 0 /\ UNCHANGED files
          ELSE files' = filesAtScanStart(files) /\ UNCHANGED totalSize
       /\ scan' = [ o \in Callers |->
                     IF o = c
                     THEN IF rootExists
                          THEN [pc |-> "joining", kind |-> kind, disk0 |-> disk,
                                listed |-> listing(disk), queued |-> listing(disk),
                                running |-> {}, threw |-> FALSE,
                                ret |-> 0, out |-> <<>>, alone |-> ~active(Other(c)),
                                refill |-> kind = "files" /\ files # <<>>]
                          ELSE [pc |-> "returned", kind |-> kind, disk0 |-> disk,
                                listed |-> {}, queued |-> {},
                                running |-> {}, threw |-> TRUE,
                                ret |-> 0, out |-> <<>>, alone |-> ~active(Other(c)),
                                refill |-> kind = "files" /\ files # <<>>]
                     ELSE IF active(o) THEN [scan[o] EXCEPT !.alone = FALSE]
                          ELSE scan[o] ]
  /\ UNCHANGED <<layout, disk, rootExists, cfg, last, concurrencyLimit, queueConcurrency,
                 nonEngineScanVars>>

\* the queue starts a waiting task: fs.stat(fullPath) is called
StatStart(c) ==
  /\ inFlight < queueConcurrency
  /\ \E f \in scan[c].queued :
       scan' = [scan EXCEPT ![c].queued = @ \ {f}, ![c].running = @ \cup {f}]
  /\ UNCHANGED <<engineVars, concurrencyLimit, queueConcurrency,
                 nonEngineScanVars>>

\* fs.stat returns and the task adds the size or pushes the record, or
\* fs.stat rejects and the join of the scan rejects with it
StatDone(c) ==
  /\ \E f \in scan[c].running : \E ok \in BOOLEAN :
       IF ok
       THEN /\ scan' = [scan EXCEPT ![c].running = @ \ {f}]
            /\ IF scan[c].kind = "size"
               THEN totalSize' = totalSize + f.size /\ UNCHANGED files
               ELSE files' = Append(files, f) /\ UNCHANGED totalSize
       ELSE /\ scan' = [scan EXCEPT ![c].running = @ \ {f},
                                    ![c].threw = TRUE,
                                    ![c].pc = "returned"]
            /\ UNCHANGED <<files, totalSize>>
  /\ UNCHANGED <<layout, disk, rootExists, cfg, last, concurrencyLimit, queueConcurrency,
                 nonEngineScanVars>>

\* the join resolves: return this.#totalSize / return this.#files
ScanReturn(c) ==
  /\ scan[c].pc = "joining"
  /\ scanJoined(scan[c])
  /\ scan' = [scan EXCEPT ![c].pc = "returned",
                          ![c].ret = IF scan[c].kind = "size" THEN totalSize ELSE 0,
                          ![c].out = IF scan[c].kind = "files" THEN files ELSE <<>>]
  /\ UNCHANGED <<engineVars, concurrencyLimit, queueConcurrency,
                 nonEngineScanVars>>

\* set concurrencyLimit(n)
SetConcurrencyLimit ==
  /\ \E n \in SetterLimits :
       /\ n # concurrencyLimit
       /\ concurrencyLimit' = setConcurrencyLimit(n).limit
       /\ queueConcurrency' = setConcurrencyLimit(n).queue
  /\ UNCHANGED <<engineVars, scan, nonEngineScanVars>>

TickScans == StartScan("tick") \/ StatStart("tick") \/ StatDone("tick") \/ ScanReturn("tick")

TimeoutScans ==
  \/ StartScan("timeout")
  \/ StatStart("timeout")
  \/ StatDone("timeout")
  \/ ScanReturn("timeout")

NextScan ==
  \/ TickScans
  \/ TimeoutScans
  \/ SetConcurrencyLimit
  \/ CreateFile

SpecScan == InitScan /\ [][NextScan]_vars

(***************************************************************************)
(* The two trigger callbacks on the one DirectoryWorker of a Watcher: the   *)
(* cron callback runs deleteOutdatedFiles (a scan, stat by stat, then the   *)
(* loop over the list), the debounce timeout runs getDirectorySize and then *)
(* deleteFilesOverLimit on the list as it is; the deletions of both settle  *)
(* one by one.                                                              *)
(***************************************************************************)
\* the directory d exists: the root, or a directory that holds a file
dirPresent(dsk, rootOk, d) ==
  IF d = Root THEN rootOk ELSE \E f \in dsk : IsUnder(f.dir, d)

\* fs.rm(dir, {recursive: true}) without force: a missing path rejects
rmOutcomeNoForce(present, fault) == IF present /\ ~fault THEN "ok" ELSE "failed"

\* fs.rm(dir, {recursive: true, force: true}): a missing path is ignored, and
\* a path that is there is removed unless the file system refuses
rmOutcome(present, fault) == IF present /\ fault THEN "failed" ELSE "ok"

\* the list is what the last scan listed, less the records evicted since
listIsWhole == Range(files) = snap.listed \ snap.evicted

InitOverlap ==
  /\ layout = LayoutSiblings
  /\ disk \in { S \in SUBSET layout : Cardinality(S) <= MaxFiles }
  /\ rootExists = TRUE
  /\ files = <<>>
  /\ totalSize = 0
  /\ cfg \in WatcherConfigs
  /\ last = Op("none", "none", 0, 0, 0, <<>>, {}, 0, FALSE, <<>>)
  /\ TriggersIdle
  /\ pass = NoPass
  /\ ConfigIdle
  /\ EnvIdle
  /\ scan = [c \in Callers |-> NoScan]
  /\ \E given \in ConstructorLimits :
       /\ concurrencyLimit = constructorLimit(given)
       /\ queueConcurrency = constructorLimit(given)
  /\ OverlapIdle

\* the cron callback calls deleteOutdatedFiles, which calls updateAllFiles:
\* the list is emptied and one stat per listed file is queued; a missing
\* root makes the listing throw, which deleteOutdatedFiles catches
TickStart ==
  /\ job["tick"].pc \in {"idle", "returned"}
  /\ job["tick"].todo = {}
  /\ files' = filesAtScanStart(files)
  /\ IF rootExists
     THEN /\ job' = [job EXCEPT !["tick"] =
                       [NoJob EXCEPT !.pc = "scanning", !.todo = listing(disk)]]
          /\ snap' = [listed |-> listing(disk), evicted |-> {}]
     ELSE /\ job' = [job EXCEPT !["tick"] =
                       [NoJob EXCEPT !.pc = "returned",
                                     !.ret = outdatedOnError.ret,
                                     !.errors = outdatedOnError.errors]]
          /\ snap' = [listed |-> {}, evicted |-> {}]
  /\ UNCHANGED <<layout, disk, rootExists, totalSize, cfg, last, nonEngineOverlapVars>>

\* one stat task of the scan: the record is pushed, or the file is gone and
\* the rejection ends the scan, the tasks left going on
TickStat ==
  /\ \E f \in job["tick"].todo :
       IF f \in disk
       THEN /\ files' = Append(files, f)
            /\ job' = [job EXCEPT !["tick"].todo = @ \ {f}]
       ELSE /\ UNCHANGED files
            /\ job' = [job EXCEPT
                         !["tick"].todo = @ \ {f},
                         !["tick"].pc = "returned",
                         !["tick"].ret = outdatedOnError.ret,
                         !["tick"].errors =
                           IF job["tick"].pc = "scanning" THEN outdatedOnError.errors ELSE @]
  /\ UNCHANGED <<layout, disk, rootExists, totalSize, cfg, last, snap,
                 nonEngineOverlapVars>>

\* the scan has returned: the loop of deleteOutdatedFiles goes through the
\* list and issues the deletions
TickIterate ==
  /\ job["tick"].pc = "scanning"
  /\ job["tick"].todo = {}
  /\ \E now \in 1..MaxNow :
       LET victims == outdatedPlan(files, now)
       IN /\ files' = Without(files, Range(victims))
          /\ job' = [job EXCEPT !["tick"].pc = "settling",
                                !["tick"].rms = issued(victims),
                                !["tick"].whole = listIsWhole]
          /\ snap' = [snap EXCEPT !.evicted = @ \cup Range(victims)]
  /\ UNCHANGED <<layout, disk, rootExists, totalSize, cfg, last, nonEngineOverlapVars>>

\* the debounce timeout fires: #needToEraseFiles awaits getDirectorySize,
\* which rejects when the root is missing
TimeoutSize ==
  /\ job["timeout"].pc \in {"idle", "returned"}
  /\ totalSize' = scannedSize(rootExists, disk, {})
  /\ job' = [job EXCEPT !["timeout"] =
               IF rootExists
               THEN [NoJob EXCEPT !.pc = "sized", !.size = scannedSize(rootExists, disk, {})]
               ELSE [NoJob EXCEPT !.pc = "returned", !.threw = TRUE]]
  /\ UNCHANGED <<layout, disk, rootExists, files, cfg, last, snap, nonEngineOverlapVars>>

\* currentSize >= limitSize decides, and deleteFilesOverLimit(limitSize)
\* sorts the list and issues the deletions
TimeoutDelete ==
  /\ job["timeout"].pc = "sized"
  /\ IF job["timeout"].size >= limitSize
     THEN LET plan == overLimitPlan(files, totalSize, limitSize)
          IN /\ files' = Without(files, Range(plan.victims))
             /\ job' = [job EXCEPT !["timeout"].pc = "settling",
                                   !["timeout"].rms = issued(plan.victims),
                                   !["timeout"].ret = plan.ret,
                                   !["timeout"].whole = listIsWhole]
             /\ snap' = [snap EXCEPT !.evicted = @ \cup Range(plan.victims)]
     ELSE /\ job' = [job EXCEPT !["timeout"].pc = "returned"]
          /\ UNCHANGED <<files, snap>>
  /\ UNCHANGED <<layout, disk, rootExists, totalSize, cfg, last, nonEngineOverlapVars>>

\* one fs.rm of the pass of c settles
SettleJobRm(c) ==
  /\ job[c].pc = "settling"
  /\ \E i \in 1..Len(job[c].rms) : \E fault \in BOOLEAN :
       LET dir == job[c].rms[i].dir
           present == dirPresent(disk, rootExists, dir)
           st == rmOutcome(present, fault)
       IN /\ job[c].rms[i].st = "pending"
          /\ job' = [job EXCEPT ![c].rms[i].st = st,
                                ![c].gone = IF present THEN @ ELSE @ \cup {i}]
          /\ disk' = diskAfterRm(disk, <<[dir |-> dir, ok |-> st = "ok"]>>)
          /\ rootExists' = rootAfterRm(rootExists, <<[dir |-> dir, ok |-> st = "ok"]>>)
  /\ UNCHANGED <<layout, files, totalSize, cfg, last, snap, nonEngineOverlapVars>>

\* await Promise.allSettled(deletionPromises) resolves and the pass returns
ReturnJob(c) ==
  /\ job[c].pc = "settling"
  /\ allSettled(job[c].rms)
  /\ job' = [job EXCEPT ![c].pc = "returned",
                        ![c].ret = IF c = "tick"
                                   THEN deletedCount(settledCalls(job[c].rms))
                                   ELSE @]
  /\ UNCHANGED <<engineVars, snap, nonEngineOverlapVars>>

NextOverlap ==
  \/ TickStart
  \/ TickStat
  \/ TickIterate
  \/ TimeoutSize
  \/ TimeoutDelete
  \/ SettleJobRm("tick")
  \/ SettleJobRm("timeout")
  \/ ReturnJob("tick")
  \/ ReturnJob("timeout")
  \/ CreateFile

SpecOverlap == InitOverlap /\ [][NextOverlap]_vars

(***************************************************************************)
(* The triggers of the Watcher: the debounce timer armed by chokidar 'add'  *)
(* events and the callback node-cron calls at every tick.  The passes the   *)
(* callbacks start are kept only as callbacks in progress.                  *)
(***************************************************************************)
\* setTimeout(..., 500): the debounce delay
DebounceMs == 500

\* the amounts of time, in ms, that pass between two steps
Delays == {250}

\* params.logger ?? console, and the level of a pino logger
Loggers == {"debug", "info", "console"}

\* a handler that sets a new timeout and leaves the previous one armed
timersAfterAddNoClear(ts, handle, due) == ts \cup {due}

\* a handler that clears the previous timeout and sets one only if none was set
timersAfterAddClearOnly(ts, handle, due) ==
  IF handle # NoTimer THEN ts \ {handle} ELSE ts \cup {due}

\* if (this.#cleanupTimer) clearTimeout(this.#cleanupTimer)
\* this.#cleanupTimer = setTimeout(callback, 500)
timersAfterAdd(ts, handle, due) ==
  (IF handle # NoTimer THEN ts \ {handle} ELSE ts) \cup {due}

\* (this.#logger as Logger)?.isLevelEnabled('debug'): console has no such
\* method, and calling undefined throws a TypeError
isLevelEnabledDebug(lg) ==
  IF lg = "console" THEN "throws" ELSE IF lg = "debug" THEN "true" ELSE "false"

InitTrigger ==
  /\ layout = LayoutSiblings
  /\ disk = {}
  /\ rootExists = TRUE
  /\ files = <<>>
  /\ totalSize = 0
  /\ cfg \in WatcherConfigs
  /\ last = Op("none", "none", 0, 0, 0, <<>>, {}, 0, FALSE, <<>>)
  /\ pass = NoPass
  /\ ConfigIdle
  /\ ScansIdle
  /\ OverlapIdle
  /\ EnvIdle
  /\ clock = 0
  /\ timers = {}
  /\ cleanupTimer = NoTimer
  /\ logger \in Loggers
  /\ running = NothingRunning
  /\ obs = NothingObserved

\* chokidar emits 'add': #onAddFile
AddEvent ==
  /\ obs.events < MaxEvents
  /\ timers' = timersAfterAdd(timers, cleanupTimer, clock + DebounceMs)
  /\ cleanupTimer' = clock + DebounceMs
  /\ obs' = [obs EXCEPT !.events = @ + 1,
                        !.lastEventAt = clock,
                        !.chains = IF obs.events = 0 \/ clock - obs.lastEventAt >= 500
                                   THEN @ + 1 ELSE @,
                        !.unevaluated = TRUE]
  /\ UNCHANGED <<clock, logger, running, nonTriggerVars>>

\* an armed timeout that is due fires: its callback calls #needToEraseFiles
TimerFires ==
  /\ \E d \in timers :
       /\ d <= clock
       /\ timers' = timers \ {d}
  /\ running' = [running EXCEPT !.eval = @ + 1]
  /\ obs' = [obs EXCEPT !.starts = @ + 1,
                        !.startGap = clock - obs.lastEventAt,
                        !.unevaluated = FALSE]
  /\ UNCHANGED <<clock, cleanupTimer, logger, nonTriggerVars>>

\* the callback of the timeout returns, or getDirectorySize rejects and the
\* promise of the callback, which nothing holds, rejects with it
EvalFinishes ==
  /\ running.eval > 0
  /\ running' = [running EXCEPT !.eval = @ - 1]
  /\ \E threw \in BOOLEAN : obs' = [obs EXCEPT !.escaped = @ \/ threw]
  /\ UNCHANGED <<clock, timers, cleanupTimer, logger, nonTriggerVars>>

\* node-cron calls the scheduled callback
CronTick ==
  /\ obs.ticks < MaxTicks
  /\ LET enabled == isLevelEnabledDebug(logger)
     IN IF enabled = "throws"
        THEN /\ obs' = [obs EXCEPT !.ticks = @ + 1, !.tickErrors = @ + 1]
             /\ UNCHANGED running
        ELSE IF enabled = "true"
        THEN /\ obs' = [obs EXCEPT !.ticks = @ + 1, !.sizeScans = @ + 1]
             /\ running' = [running EXCEPT !.size = @ + 1]
        ELSE /\ obs' = [obs EXCEPT !.ticks = @ + 1, !.ttlRuns = @ + 1]
             /\ running' = [running EXCEPT !.ttl = @ + 1]
  /\ UNCHANGED <<clock, timers, cleanupTimer, logger, nonTriggerVars>>

\* await getDirectorySize() in the cron callback returns, or rejects and
\* ends the callback
SizeScanDone ==
  /\ running.size > 0
  /\ \E threw \in BOOLEAN :
       IF threw
       THEN /\ running' = [running EXCEPT !.size = @ - 1]
            /\ obs' = [obs EXCEPT !.tickErrors = @ + 1]
       ELSE /\ running' = [running EXCEPT !.size = @ - 1, !.ttl = @ + 1]
            /\ obs' = [obs EXCEPT !.ttlRuns = @ + 1]
  /\ UNCHANGED <<clock, timers, cleanupTimer, logger, nonTriggerVars>>

\* await deleteOutdatedFiles() in the cron callback returns
TtlFinishes ==
  /\ running.ttl > 0
  /\ running' = [running EXCEPT !.ttl = @ - 1]
  /\ UNCHANGED <<clock, timers, cleanupTimer, logger, obs, nonTriggerVars>>

\* time passes
Advance ==
  /\ \/ clock < MaxAdvances * 250
     \/ \E d \in timers : d > clock
  /\ \E d \in Delays : clock' = clock + d
  /\ UNCHANGED <<timers, cleanupTimer, logger, running, obs, nonTriggerVars>>

NextTrigger ==
  \/ AddEvent
  \/ TimerFires
  \/ EvalFinishes
  \/ CronTick
  \/ SizeScanDone
  \/ TtlFinishes
  \/ Advance

SpecTrigger == InitTrigger /\ [][NextTrigger]_vars

\* time keeps passing and a timeout that is due is run by the event loop
SpecTriggerFair ==
  /\ SpecTrigger
  /\ WF_vars(Advance)
  /\ WF_vars(TimerFires)

(***************************************************************************)
(* CacheCleaner: the validation of the parameters in the constructor, the   *)
(* modes derived from them, and start().                                    *)
(***************************************************************************)
SizeValues == {JsUndefined, JsNaN, JsNumber(-1), JsNumber(0), JsNumber(1024)}

PercentValues ==
  {JsUndefined, JsNaN, JsNumber(-10), JsNumber(0), JsNumber(50), JsNumber(100),
   JsNumber(120)}

CronValues == {NoString, "", "*/5 * * * *", "not a cron"}

PathValues == {NoString, "", "/valid/path"}

\* a validation that accepts every string
validateCronStringAny(str) == TRUE

\* Watcher.validateCronString: cron.validate(cronString)
validateCronString(str) == str = "*/5 * * * *"

\* a check that sees a size without a percent, not a percent without a size
separatelyDefinedOneWay(p) ==
  typeOf(p.directorySize) = "number" /\ typeOf(p.fullnessPercent) # "number"

\* one of directorySize and fullnessPercent is a number and the other is not
separatelyDefined(p) ==
  \/ typeOf(p.directorySize) = "number" /\ typeOf(p.fullnessPercent) # "number"
  \/ typeOf(p.fullnessPercent) = "number" /\ typeOf(p.directorySize) # "number"

\* a check that lets a size of 0 through
sizeNotPositiveStrict(p) ==
  typeOf(p.directorySize) = "number" /\ ~isNaN(p.directorySize) /\ p.directorySize.val < 0

\* typeof directorySize === 'number' && directorySize <= 0 (false for NaN)
sizeNotPositive(p) ==
  typeOf(p.directorySize) = "number" /\ ~isNaN(p.directorySize) /\ p.directorySize.val <= 0

\* typeof fullnessPercent === 'number' && (fullnessPercent > 1 || fullnessPercent < 0)
percentOutOfRange(p) ==
  /\ typeOf(p.fullnessPercent) = "number"
  /\ ~isNaN(p.fullnessPercent)
  /\ (p.fullnessPercent.val > 100 \/ p.fullnessPercent.val < 0)

\* #validateParams: the error it throws, "none" when it returns
validateParams(p) ==
  IF separatelyDefined(p) THEN "Error"
  ELSE IF isNaN(p.directorySize) THEN "RangeError"
  ELSE IF isNaN(p.fullnessPercent) THEN "RangeError"
  ELSE IF sizeNotPositive(p) THEN "RangeError"
  ELSE IF truthy(p.cronString) /\ ~validateCronString(p.cronString) THEN "SyntaxError"
  ELSE IF percentOutOfRange(p) THEN "RangeError"
  ELSE IF ~truthy(p.directoryPath) THEN "Error"
  ELSE "none"

InitConfig ==
  /\ layout = LayoutSiblings
  /\ disk = {}
  /\ rootExists = TRUE
  /\ files = <<>>
  /\ totalSize = 0
  /\ cfg \in WatcherConfigs
  /\ last = Op("none", "none", 0, 0, 0, <<>>, {}, 0, FALSE, <<>>)
  /\ TriggersIdle
  /\ pass = NoPass
  /\ ScansIdle
  /\ OverlapIdle
  /\ EnvIdle
  /\ params \in [directorySize : SizeValues, fullnessPercent : PercentValues,
                  cronString : CronValues, directoryPath : PathValues]
  /\ cleaner = NotConstructed

\* new CacheCleaner(params)
Construct ==
  /\ cleaner.state = "new"
  /\ LET error == validateParams(params)
     IN IF error # "none"
        THEN cleaner' = [cleaner EXCEPT !.state = "threw", !.error = error]
        ELSE cleaner' = [cleaner EXCEPT
                           !.state = "constructed",
                           !.mods = [byCron |-> truthy(params.cronString),
                                     byFullnessPercent |->
                                       truthyNumber(params.fullnessPercent)],
                           !.watcher = TRUE]
  /\ UNCHANGED <<params, nonConfigVars>>

\* start(): #init pushes watchByCron() and watchByLimit() as the modes say
Start ==
  /\ cleaner.state = "constructed"
  /\ cleaner' = [cleaner EXCEPT
                   !.state = "started",
                   !.started = (IF cleaner.mods.byCron THEN {"watchByCron"} ELSE {})
                               \cup (IF cleaner.mods.byFullnessPercent
                                     THEN {"watchByLimit"} ELSE {})]
  /\ UNCHANGED <<params, nonConfigVars>>

NextConfig ==
  \/ Construct
  \/ Start

SpecConfig == InitConfig /\ [][NextConfig]_vars

(***************************************************************************)
(* parseInputArgs called with no command-line option: the configuration is  *)
(* read from process.env.  The sources hold two versions of the numeric     *)
(* conversion, and the model checks both.                                   *)
(***************************************************************************)
\* the values of NICC_MAX_CAPACITY and NICC_FULLNESS_PERCENT explored:
\* unset, '', 'x', '12', '0'
EnvValues ==
  {Unset, EnvString(<<>>), EnvString(<<"x">>), EnvString(<<"1", "2">>), EnvString(<<"0">>)}

DirValues == {Unset, EnvString(<<>>), EnvString(<<"/">>)}

Builds == {"isNaN", "parseOptionalNumber"}

\* the value of a string of decimal digits from position i on, NaN if a
\* character is not a digit
RECURSIVE DecimalValue(_, _, _)
DecimalValue(str, i, acc) ==
  IF i > Len(str) THEN JsNumber(acc)
  ELSE IF str[i] \in Digits THEN DecimalValue(str, i + 1, acc * 10 + DigitVal(str[i]))
  ELSE JsNaN

\* Number(v): NaN for undefined, 0 for the empty string
ToNumber(v) ==
  IF ~v.set THEN JsNaN
  ELSE IF v.str = <<>> THEN JsNumber(0)
  ELSE DecimalValue(v.str, 1, 0)

\* !isNaN(Number(v)) ? Number(v) : undefined
numberOrUndefined(v) == IF ~isNaN(ToNumber(v)) THEN ToNumber(v) ELSE JsUndefined

\* parseOptionalNumber(val): undefined unless val is a non-empty string that
\* converts to a finite number
parseOptionalNumber(v) ==
  IF ~v.set \/ v.str = <<>> THEN JsUndefined
  ELSE IF isNaN(ToNumber(v)) THEN JsUndefined
  ELSE ToNumber(v)

\* the conversion of the build
envNumber(b, v) == IF b = "isNaN" THEN numberOrUndefined(v) ELSE parseOptionalNumber(v)

InitEnv ==
  /\ layout = LayoutSiblings
  /\ disk = {}
  /\ rootExists = TRUE
  /\ files = <<>>
  /\ totalSize = 0
  /\ cfg \in WatcherConfigs
  /\ last = Op("none", "none", 0, 0, 0, <<>>, {}, 0, FALSE, <<>>)
  /\ TriggersIdle
  /\ pass = NoPass
  /\ ConfigIdle
  /\ ScansIdle
  /\ OverlapIdle
  /\ env \in [dir : DirValues, capacity : EnvValues, percent : EnvValues]
  /\ build \in Builds
  /\ config = NotParsed

\* parseInputArgs() with no command-line option
ParseInputArgs ==
  /\ config.state = "none"
  /\ IF ~env.dir.set \/ env.dir.str = <<>>
     THEN config' = [config EXCEPT !.state = "threw"]
     ELSE config' = [state |-> "returned",
                     directorySize |-> envNumber(build, env.capacity),
                     fullnessPercent |-> envNumber(build, env.percent)]
  /\ UNCHANGED <<env, build, nonEnvVars>>

\* the process is started again with the same environment
Restart ==
  /\ config.state # "none"
  /\ config' = NotParsed
  /\ UNCHANGED <<env, build, nonEnvVars>>

NextEnv ==
  \/ ParseInputArgs
  \/ Restart

SpecEnv == InitEnv /\ [][NextEnv]_vars

(***************************************************************************)
(* Vocabulary of the properties.                                           *)
(***************************************************************************)
\* the last operation was a capacity pass / a TTL pass whose scan succeeded
CapacityPassDone == last.op = "deleteFilesOverLimit"
TtlPassDone == last.op = "deleteOutdatedFiles" /\ ~last.threw

\* the files whose parent directory the last pass scheduled for deletion
Scheduled == [ i \in 1..Len(last.rms) |-> last.rms[i].file ]
ScheduledDirs == { last.rms[i].dir : i \in 1..Len(last.rms) }
AllDeletionsOk == \A i \in 1..Len(last.rms) : last.rms[i].ok
SomeDeletionFailed == \E i \in 1..Len(last.rms) : ~last.rms[i].ok

\* the disk is as the last pass left it: nothing was created since
DiskAsLeft == disk = diskAfterRm(last.disk0, last.rms)

\* the second dot-delimited field of the name exists and starts, after white
\* space and an optional sign, with a decimal digit: it parses to an integer
Parses(f) ==
  LET parts == Split(f.name)
  IN /\ Len(parts) >= 2
     /\ LET seg == parts[2]
            i == SkipSpaces(seg, 1)
            j == IF i <= Len(seg) /\ seg[i] \in {"-", "+"} THEN i + 1 ELSE i
        IN j <= Len(seg) /\ seg[j] \in Digits
ExpiresBefore(f, now) == Parses(f) /\ parseFile(f.name).val < now
NotYetExpired(f, now) == Parses(f) /\ parseFile(f.name).val >= now

\* f lies in or beneath a directory that the pass scheduled for deletion
UnderScheduledDir(f) ==
  \E i \in 1..Len(last.rms) : IsUnder(f.dir, last.rms[i].dir)

LastExcess == last.total0 - last.limit

(***************************************************************************)
(* C1: when the last computed total T satisfies T <= L,                    *)
(* deleteFilesOverLimit(L) returns 0, issues no deletion and leaves the    *)
(* in-memory file list unchanged.                                          *)
(***************************************************************************)
C1_NoExcessIsNoOp ==
  (CapacityPassDone /\ last.total0 <= last.limit)
    => (last.ret = 0 /\ last.rms = <<>> /\ files = last.files0)

\* a pass on a non-empty list whose total equals the limit exactly
C1_Witness ==
  /\ CapacityPassDone
  /\ last.total0 = last.limit
  /\ Len(last.files0) = 2

(***************************************************************************)
(* C2: when the files of the list total T and T exceeds L by excess > 0,   *)
(* the files deleteFilesOverLimit(L) schedules are, in ascending creation  *)
(* time, a prefix of the list sorted by creation time; their cumulative    *)
(* size is >= excess, without the last of them it is < excess, and no file *)
(* is scheduled while a strictly older one is left in the list.            *)
(***************************************************************************)
C2_ShortestOldestPrefix ==
  (CapacityPassDone /\ LastExcess > 0 /\ SumSizesSeq(last.files0) = last.total0)
    => LET n == Len(Scheduled)
       IN /\ n >= 1
          /\ Range(Scheduled) \subseteq Range(last.files0)
          /\ \A i, j \in 1..n : i < j =>
               Scheduled[i] # Scheduled[j] /\ Scheduled[i].birth <= Scheduled[j].birth
          /\ SumSizesSeq(Scheduled) >= LastExcess
          /\ SumSizesSeq(SubSeq(Scheduled, 1, n - 1)) < LastExcess
          /\ \A f \in Range(last.files0) \ Range(Scheduled) :
               \A i \in 1..n : ~(f.birth < Scheduled[i].birth)
          /\ files = Without(last.files0, Range(Scheduled))

\* a strict prefix was enough, and the list was not in creation order
C2_Witness ==
  /\ CapacityPassDone /\ LastExcess > 0
  /\ SumSizesSeq(last.files0) = last.total0
  /\ Len(last.files0) = 2
  /\ last.files0[1].birth > last.files0[2].birth
  /\ Len(Scheduled) = 1

(***************************************************************************)
(* C3: after a change-driven evaluation that found total >= limit, with    *)
(* every deletion successful and no file created meanwhile, the files left *)
(* under the root total at most the limit.                                 *)
(***************************************************************************)
C3_EvaluationRestoresBudget ==
  (CapacityPassDone /\ last.by = "limit" /\ AllDeletionsOk /\ DiskAsLeft)
    => SumSizes(disk) <= last.limit

(***************************************************************************)
(* C4: a second deleteFilesOverLimit with the same limit, right after a    *)
(* first one whose deletions succeeded and with no file added in between,  *)
(* frees 0 bytes and issues no deletion.                                   *)
(***************************************************************************)
C4_SecondRunIsNoOp ==
  [][ ( /\ CapacityPassDone /\ last.by = "api" /\ AllDeletionsOk /\ DiskAsLeft
        /\ DeleteFilesOverLimit
        /\ last'.limit = last.limit )
      => (last'.ret = 0 /\ last'.rms = <<>>) ]_vars

(***************************************************************************)
(* C5: deleteFilesOverLimit returns the sum of the sizes of the files      *)
(* whose parent directory it scheduled for deletion in this pass, whether  *)
(* the deletions succeed or fail; an older file of 100 bytes and a newer   *)
(* one of 200 bytes with total 300 and limit 150 give 300.                 *)
(***************************************************************************)
C5_Example ==
  /\ last.total0 = 300 /\ last.limit = 150 /\ Len(last.files0) = 2
  /\ \E f, g \in Range(last.files0) : f.size = 100 /\ g.size = 200 /\ f.birth < g.birth

C5_ReturnsScheduledBytes ==
  CapacityPassDone =>
    /\ last.ret = SumSizesSeq(Scheduled)
    /\ C5_Example => last.ret = 300

\* the 100/200 example, with a deletion that failed
C5_Witness ==
  /\ CapacityPassDone
  /\ C5_Example
  /\ last.ret = 300
  /\ SomeDeletionFailed

(***************************************************************************)
(* C6: in one TTL pass, for every scanned file whose second name field     *)
(* parses to an integer < now, a deletion of the file's parent directory   *)
(* is issued, and exactly one per directory.                               *)
(***************************************************************************)
C6_ExpiredDirDeletedOnce ==
  TtlPassDone =>
    \A f \in Range(last.files0) :
      ExpiresBefore(f, last.now) =>
        Cardinality({ i \in 1..Len(last.rms) : last.rms[i].dir = f.dir }) = 1

(***************************************************************************)
(* C7 as claimed: a file whose name encodes an expiry >= now is never      *)
(* removed from disk by a TTL pass.                                        *)
(***************************************************************************)
C7_UnexpiredNeverRemoved ==
  TtlPassDone =>
    \A f \in last.disk0 : NotYetExpired(f, last.now) => f \in disk

(***************************************************************************)
(* C7 amended: a TTL pass issues no deletion on account of a file whose    *)
(* expiry is >= now, and such a file leaves the disk only when it lies in  *)
(* or beneath the parent directory of a scanned file whose expiry is < now *)
(* (a directory the pass scheduled for deletion).                          *)
(***************************************************************************)
C7_UnexpiredRemovedOnlyWithExpired ==
  TtlPassDone =>
    /\ \A i \in 1..Len(last.rms) : ExpiresBefore(last.rms[i].file, last.now)
    /\ \A f \in last.disk0 \ disk :
         NotYetExpired(f, last.now) =>
           \E i \in 1..Len(last.rms) :
             /\ ExpiresBefore(last.rms[i].file, last.now)
             /\ IsUnder(f.dir, last.rms[i].dir)

\* an expired entry was removed and a file expiring exactly now was kept
C7_Witness ==
  /\ TtlPassDone
  /\ \E i \in 1..Len(last.rms) : last.rms[i].ok
  /\ \E f \in last.disk0 :
       Parses(f) /\ parseFile(f.name).val = last.now /\ f \in disk

(***************************************************************************)
(* C8 as claimed: a file whose second name field is missing or does not    *)
(* parse to an integer is never removed from disk by a TTL pass and never  *)
(* causes a deletion to be scheduled.                                      *)
(***************************************************************************)
C8_UnparsableNeverRemoved ==
  TtlPassDone =>
    /\ \A i \in 1..Len(last.rms) : Parses(last.rms[i].file)
    /\ \A f \in last.disk0 : ~Parses(f) => f \in disk

(***************************************************************************)
(* C8 amended: a file whose second name field is missing or does not parse *)
(* to an integer never causes a deletion to be scheduled and stays in the  *)
(* in-memory list; it leaves the disk only when it lies in or beneath a     *)
(* directory the pass scheduled for deletion on account of another file.   *)
(***************************************************************************)
C8_UnparsableNeverScheduled ==
  TtlPassDone =>
    /\ \A i \in 1..Len(last.rms) : Parses(last.rms[i].file)
    /\ \A f \in Range(last.files0) : ~Parses(f) => f \in Range(files)
    /\ \A f \in last.disk0 \ disk : ~Parses(f) => UnderScheduledDir(f)

\* an expired entry was removed and an unparsable file elsewhere was kept
C8_Witness ==
  /\ TtlPassDone
  /\ \E i \in 1..Len(last.rms) : last.rms[i].ok
  /\ \E f \in Range(last.files0) : ~Parses(f) /\ f \in disk

(***************************************************************************)
(* C9: when the listing succeeds and every deletion succeeds,              *)
(* deleteOutdatedFiles returns the number of distinct directories it       *)
(* removed in that pass.                                                   *)
(***************************************************************************)
C9_ReturnsDistinctDirs ==
  (TtlPassDone /\ AllDeletionsOk) => last.ret = Cardinality(ScheduledDirs)

ListingFailed == last.threw /\ last.disk0 = {} /\ last.files0 = <<>>

C11_ListingFailureGivesNull ==
  (last.op = "deleteOutdatedFiles" /\ ListingFailed)
    => /\ ~last.rejected
       /\ last.errors = 1
       /\ last.ret = Null
       /\ last.rms = <<>>
       /\ files = <<>>

\* a TTL pass on a root that an earlier pass has removed
C11_Witness ==
  /\ last.op = "deleteOutdatedFiles"
  /\ ListingFailed
  /\ ~rootExists


(***************************************************************************)
(* C12: within one eviction pass, TTL or capacity, every deletion the pass  *)
(* scheduled stays scheduled whatever the outcome of the others, and the    *)
(* pass reports its result only when each of them has settled, as a         *)
(* success or as a failure.                                                 *)
(***************************************************************************)
C12_PassJoinsAllDeletions ==
  /\ pass.pc \in {"settling", "reported"} => Len(pass.rms) = pass.planned
  /\ pass.pc = "reported"
       => \A i \in 1..Len(pass.rms) : pass.rms[i].st \in {"ok", "failed"}

\* a capacity pass has reported after its first deletion failed and a later
\* one succeeded
C12_Witness ==
  /\ pass.pc = "reported"
  /\ pass.op = "deleteFilesOverLimit"
  /\ \E i, j \in 1..Len(pass.rms) :
       /\ i < j
       /\ pass.rms[i].st = "failed"
       /\ pass.rms[j].st = "ok"
       /\ \A f \in disk : ~IsUnder(f.dir, pass.rms[j].dir)


C14_EveryEventEvaluated == obs.unevaluated ~> ~obs.unevaluated

\* two separate bursts, each followed by its own evaluation
C14_Witness ==
  /\ obs.chains = 2
  /\ obs.starts = 2
  /\ ~obs.unevaluated
  /\ timers = {}


(***************************************************************************)
(* C15: passes of the same trigger never overlap: at any time at most one   *)
(* capacity evaluation started by a timeout is in progress, and at most one *)
(* TTL pass started by a cron tick is in progress.                          *)
(***************************************************************************)
C15_NoOverlapPerTrigger ==
  /\ running.eval <= 1
  /\ running.ttl <= 1

(***************************************************************************)
(* C17: every cron tick runs the TTL pass exactly once, whatever the        *)
(* logger: each tick has started its TTL pass or is still in the size scan  *)
(* that precedes it, and the size scan is made only by a logger at debug.   *)
(***************************************************************************)
C17_TickRunsTtlOnce ==
  /\ obs.ttlRuns + running.size = obs.ticks
  /\ obs.sizeScans = IF logger = "debug" THEN obs.ticks ELSE 0


(***************************************************************************)
(* C16: when the debounce timer fires and the size scan succeeds, the       *)
(* callback runs capacity eviction if and only if the recomputed total is   *)
(* >= the limit; the limit of the comparison and of the eviction is         *)
(* directoryKbSize * 1024 * fullnessPercent rounded to the nearest integer  *)
(* (5 KB at 0.8 gives 4096); below the limit no deletion is issued.         *)
(***************************************************************************)
\* the integer nearest to kb * 1024 * pct / 100, a half rounding up
RoundedLimit(c) ==
  CHOOSE L \in 0..(c.kb * 1024) :
    /\ 200 * L - 100 <= 2 * c.kb * 1024 * c.pct
    /\ 2 * c.kb * 1024 * c.pct < 200 * L + 100

Constructing == cleaner.state # "new"

ExactlyOneOfPair ==
  (typeOf(params.directorySize) = "number") # (typeOf(params.fullnessPercent) = "number")

C18_HalfPairFailsConstruction ==
  (Constructing /\ ExactlyOneOfPair)
    => /\ cleaner.state = "threw"
       /\ cleaner.error = "Error"
       /\ ~cleaner.watcher
       /\ cleaner.started = {}

\* a percent without a size, everything else valid, was refused
C18_Witness ==
  /\ cleaner.state = "threw"
  /\ params.directorySize = JsUndefined
  /\ params.fullnessPercent = JsNumber(50)
  /\ params.cronString = "*/5 * * * *"
  /\ params.directoryPath = "/valid/path"

(***************************************************************************)
(* C19: the construction of a CacheCleaner fails with a RangeError for      *)
(* every numeric fullnessPercent outside the open interval (0, 1): below 0, *)
(* above 1, and the boundary values 0 and 1.                                *)
(***************************************************************************)
PercentOutsideOpenInterval ==
  /\ typeOf(params.fullnessPercent) = "number"
  /\ ~isNaN(params.fullnessPercent)
  /\ (params.fullnessPercent.val <= 0 \/ params.fullnessPercent.val >= 100)

C19_PercentOutsideOpenIntervalRejected ==
  (Constructing /\ PercentOutsideOpenInterval)
    => cleaner.state = "threw" /\ cleaner.error = "RangeError"

(***************************************************************************)
(* C20: with an empty or missing directoryPath, or with a numeric           *)
(* directorySize <= 0, the constructor throws before a Watcher is created,  *)
(* and no trigger is ever started.                                          *)
(***************************************************************************)
NoPathOrNoCapacity ==
  \/ params.directoryPath \in {NoString, ""}
  \/ /\ typeOf(params.directorySize) = "number"
     /\ ~isNaN(params.directorySize)
     /\ params.directorySize.val <= 0

C20_NoPathOrNoCapacityFailsConstruction ==
  (Constructing /\ NoPathOrNoCapacity)
    => /\ cleaner.state = "threw"
       /\ ~cleaner.watcher
       /\ cleaner.started = {}

\* a size of 0 with a valid percent was refused, and so was an empty path
C20_Witness ==
  /\ cleaner.state = "threw"
  /\ \/ /\ params.directorySize = JsNumber(0)
        /\ params.fullnessPercent = JsNumber(50)
        /\ params.directoryPath = "/valid/path"
        /\ cleaner.error = "RangeError"
     \/ /\ params.directoryPath = ""
        /\ params.directorySize = JsNumber(1024)
        /\ params.fullnessPercent = JsNumber(50)
        /\ cleaner.error = "Error"


(***************************************************************************)
(* C21: a non-empty cronString that fails the cron syntax validation makes  *)
(* the constructor throw a SyntaxError; no Watcher is created and the       *)
(* schedule is never registered.                                            *)
(***************************************************************************)
InvalidCron == truthy(params.cronString) /\ params.cronString # "*/5 * * * *"

C21_InvalidCronIsSyntaxError ==
  (Constructing /\ InvalidCron)
    => /\ cleaner.state = "threw"
       /\ cleaner.error = "SyntaxError"

(***************************************************************************)
(* C21, amended: with a non-empty cronString that fails the validation the  *)
(* constructor always throws, no Watcher is created and no schedule is      *)
(* registered; the error is a SyntaxError when the numeric parameters pass  *)
(* the checks that precede the cron check, and the error of the first       *)
(* failing one of those checks otherwise.                                   *)
(***************************************************************************)
NumericChecksPass ==
  /\ ~ExactlyOneOfPair
  /\ ~isNaN(params.directorySize)
  /\ ~isNaN(params.fullnessPercent)
  /\ ~(typeOf(params.directorySize) = "number" /\ params.directorySize.val <= 0)

C21_InvalidCronFailsConstruction ==
  (Constructing /\ InvalidCron)
    => /\ cleaner.state = "threw"
       /\ ~cleaner.watcher
       /\ "watchByCron" \notin cleaner.started
       /\ cleaner.error = IF NumericChecksPass THEN "SyntaxError"
                          ELSE IF ExactlyOneOfPair THEN "Error"
                          ELSE "RangeError"

\* an invalid cron string with valid capacity parameters was refused
C21_Witness ==
  /\ cleaner.state = "threw"
  /\ cleaner.error = "SyntaxError"
  /\ params.cronString = "not a cron"
  /\ params.directorySize = JsNumber(1024)
  /\ params.fullnessPercent = JsNumber(50)
  /\ params.directoryPath = "/valid/path"


(***************************************************************************)
(* C22: constructing a CacheCleaner with a valid directoryPath and with     *)
(* directorySize and fullnessPercent both NaN does not throw.               *)
(***************************************************************************)
C22_BothNaNDoesNotThrow ==
  (/\ Constructing
   /\ params.directoryPath = "/valid/path"
   /\ params.directorySize = JsNaN
   /\ params.fullnessPercent = JsNaN
   /\ ~InvalidCron)
    => cleaner.state # "threw"


(***************************************************************************)
(* C23: start() starts the periodic trigger (watchByCron) if and only if a  *)
(* cronString was configured, and the change-driven trigger (watchByLimit)  *)
(* if and only if the pair directorySize, fullnessPercent was configured;   *)
(* with neither configured it starts no trigger.                            *)
(***************************************************************************)
CronConfigured == truthy(params.cronString)

PairConfigured ==
  typeOf(params.directorySize) = "number" /\ typeOf(params.fullnessPercent) = "number"

C23_StartsConfiguredTriggers ==
  cleaner.state = "started"
    => /\ "watchByCron" \in cleaner.started <=> CronConfigured
       /\ "watchByLimit" \in cleaner.started <=> PairConfigured


(***************************************************************************)
(* C24: a file that was listed but whose stat fails is skipped: the scan    *)
(* (getDirectorySize or updateAllFiles) of an existing root completes       *)
(* without error, whatever becomes of the stat of its files.                *)
(***************************************************************************)
\* the last operation was a scan, called directly, of a root holding files
ScanOfFilesDone ==
  /\ last.op \in {"getDirectorySize", "updateAllFiles"}
  /\ last.by = "api"
  /\ last.disk0 # {}

C24_StatFailureSkipped == ScanOfFilesDone => ~last.threw


(***************************************************************************)
(* C25: when no other scan runs on the same DirectoryWorker, a              *)
(* getDirectorySize that returns has no stat of its own left waiting or     *)
(* running, and returns the sum of the sizes of the files it listed under   *)
(* the root, not a value left by an earlier call.                           *)
(***************************************************************************)
\* the size scan of c returned a value and no other scan ran meanwhile
SizeScanReturnedAlone(c) ==
  /\ scan[c].pc = "returned"
  /\ scan[c].kind = "size"
  /\ ~scan[c].threw
  /\ scan[c].alone

C25_SizeScanIsCompleteAndFresh ==
  \A c \in Callers :
    SizeScanReturnedAlone(c)
      => /\ scan[c].queued = {}
         /\ scan[c].running = {}
         /\ scan[c].ret = SumSizes(scan[c].disk0)

\* a second size scan, after a file was written, returned the new sum
C25_Witness ==
  /\ SizeScanReturnedAlone("timeout")
  /\ Cardinality(scan["timeout"].listed) >= 2
  /\ scan["timeout"].ret = SumSizes(disk)
  /\ SizeScanReturnedAlone("tick")
  /\ scan["tick"].ret # scan["timeout"].ret
  /\ scan["tick"].ret > 0


(***************************************************************************)
(* C26: an updateAllFiles that returns, with no other scan running, has     *)
(* put in the list exactly one record per regular file beneath the root,    *)
(* at any depth, and none for a directory or a symbolic link; one stat was  *)
(* queued per file.                                                         *)
(***************************************************************************)
FilesScanReturnedAlone(c) ==
  /\ scan[c].pc = "returned"
  /\ scan[c].kind = "files"
  /\ ~scan[c].threw
  /\ scan[c].alone

C26_OneRecordPerRegularFile ==
  \A c \in Callers :
    FilesScanReturnedAlone(c)
      => /\ Range(scan[c].out) = scan[c].disk0
         /\ Len(scan[c].out) = Cardinality(scan[c].disk0)
         /\ scan[c].listed = scan[c].disk0

\* a scan of two files, one of them two directories deep, beside directory
\* and link entries
C26_Witness ==
  /\ FilesScanReturnedAlone("tick")
  /\ Cardinality(scan["tick"].disk0) >= 2
  /\ \E f \in scan["tick"].disk0 : Len(f.dir) = 2
  /\ \E e \in direntsOf(scan["tick"].disk0) : e.kind = "link"
  /\ \E e \in direntsOf(scan["tick"].disk0) : e.kind = "dir"


(***************************************************************************)
(* C27: at every moment the number of stat operations in flight on one      *)
(* DirectoryWorker is at most its current concurrency limit.                *)
(***************************************************************************)
C27_InFlightWithinLimit == inFlight <= concurrencyLimit

(***************************************************************************)
(* C27, amended: the limit is 100 when none is given; the setter changes    *)
(* the concurrency of the existing queue together with the value the        *)
(* getter returns; and a stat is started only while fewer stats than the    *)
(* current limit are in flight, so the number in flight exceeds the limit   *)
(* only by stats that were started before the limit was lowered.            *)
(***************************************************************************)
C27_StartsObeyCurrentLimit ==
  /\ [](constructorLimit(NoLimit) = 100)
  /\ [](queueConcurrency = concurrencyLimit)
  /\ [][inFlight' > inFlight => inFlight' <= concurrencyLimit']_vars

\* the setter raised the limit to 2: two stats run and the others wait
C27_Witness ==
  /\ concurrencyLimit = 2
  /\ inFlight = 2
  /\ \E c \in Callers : scan[c].queued # {}


(***************************************************************************)
(* C28: when the scan inside a pass started by a trigger fails, the error   *)
(* stays inside the callback of the trigger: the promise of the timeout     *)
(* callback never rejects, and neither does the cron callback when its      *)
(* size scan fails.                                                         *)
(***************************************************************************)
C28_ScanFailureStaysInCallback ==
  /\ ~obs.escaped
  /\ logger = "debug" => obs.tickErrors = 0


(***************************************************************************)
(* C29: when the configuration is read from the environment, a              *)
(* NICC_MAX_CAPACITY or NICC_FULLNESS_PERCENT that is unset, empty or not   *)
(* numeric gives undefined for its field, never 0 and never NaN.            *)
(***************************************************************************)
\* the variable is unset, the empty string, or text that is not a number
NotAValidNumber(v) ==
  \/ ~v.set
  \/ v.str = <<>>
  \/ \E i \in 1..Len(v.str) : v.str[i] \notin Digits

C29_InvalidEnvNumberIsUndefined ==
  config.state = "returned"
    => /\ NotAValidNumber(env.capacity) => config.directorySize = JsUndefined
       /\ NotAValidNumber(env.percent) => config.fullnessPercent = JsUndefined


(***************************************************************************)
(* C30: when an eviction pass schedules the deletion of a directory, every  *)
(* record of a file of that directory leaves the file list, so that no      *)
(* directory is scheduled twice, within the pass or by a later pass on the  *)
(* same scan.                                                               *)
(***************************************************************************)
EvictionPassDone ==
  last.op \in {"deleteOutdatedFiles", "deleteFilesOverLimit"} /\ ~last.threw

C30_ScheduledDirLeavesNoRecord ==
  EvictionPassDone =>
    /\ \A i \in 1..Len(files) : files[i].dir \notin ScheduledDirs
    /\ \A i, j \in 1..Len(last.rms) : last.rms[i].dir = last.rms[j].dir => i = j


(***************************************************************************)
(* C37: the TTL pass logs one warning for every scanned file whose expiry   *)
(* field does not parse as an integer (second segment not numeric, or no    *)
(* second segment).                                                         *)
(***************************************************************************)
C37_UnparsableExpiryIsWarned ==
  TtlPassDone =>
    last.warns = Cardinality({ i \in 1..Len(last.files0) : ~Parses(last.files0[i]) })


(***************************************************************************)
(* C38: no eviction pass issues a deletion of the cache root itself: every  *)
(* deletion target lies strictly beneath the root, also for files that lie  *)
(* directly in the root.                                                    *)
(***************************************************************************)
C38_RootIsNeverATarget ==
  EvictionPassDone =>
    \A i \in 1..Len(last.rms) : IsUnder(last.rms[i].dir, Root) /\ last.rms[i].dir # Root


(***************************************************************************)
(* C39: deleteFilesOverLimit does not scan: it deletes only parent          *)
(* directories of records that are in the file list when it is called.     *)
(* With an empty list it deletes nothing and returns 0 whatever the excess, *)
(* and with a list whose sizes sum to less than the excess it schedules     *)
(* every record and returns that sum.                                       *)
(***************************************************************************)
ExcessAtCall == last.total0 - last.limit
ScheduledRecords == { last.rms[i].file : i \in 1..Len(last.rms) }

C39_SelectsFromListOnly ==
  CapacityPassDone =>
    /\ ScheduledRecords \subseteq Range(last.files0)
    /\ Range(files) \subseteq Range(last.files0)
    /\ last.files0 = <<>> => (last.rms = <<>> /\ last.ret = 0)
    /\ (ExcessAtCall > 0 /\ SumSizesSeq(last.files0) < ExcessAtCall)
         => /\ ScheduledRecords = Range(last.files0)
            /\ Len(last.rms) = Len(last.files0)
            /\ last.ret = SumSizesSeq(last.files0)

\* a pass on a list that is not empty and does not cover the excess
C39_Witness ==
  /\ CapacityPassDone
  /\ last.files0 # <<>>
  /\ ExcessAtCall > 0
  /\ SumSizesSeq(last.files0) < ExcessAtCall
  /\ last.disk0 # Range(last.files0)


(***************************************************************************)
(* C34: at most one debounce timeout is armed for a Watcher at any time:    *)
(* a creation event clears the timeout armed before it and arms a new one,  *)
(* so the only callback that ever runs is that of the timeout armed last.   *)
(***************************************************************************)
C34_SingleArmedTimer ==
  /\ [](Cardinality(timers) <= 1 /\ timers \subseteq {cleanupTimer})
  /\ [][obs'.starts > obs.starts => (timers = {cleanupTimer} /\ timers' = {})]_vars

\* a second event arrived while the timeout of the first was armed, and one
\* timeout is armed, the one set last
C34_Witness ==
  /\ obs.events = 2
  /\ obs.lastEventAt > 0
  /\ obs.starts = 0
  /\ timers = {cleanupTimer}
  /\ cleanupTimer = obs.lastEventAt + DebounceMs


(***************************************************************************)
(* C33: when the size scan of a tick and that of a capacity evaluation      *)
(* overlap on the same DirectoryWorker, each call that returns still        *)
(* returns the sum of the sizes of the files it listed, whatever the order  *)
(* of their stats: no file is counted twice and none is lost.               *)
(***************************************************************************)
SizeScanReturned(c) ==
  /\ scan[c].pc = "returned"
  /\ scan[c].kind = "size"
  /\ ~scan[c].threw

C33_OverlappingSizeScansAreExact ==
  \A c \in Callers :
    SizeScanReturned(c) => scan[c].ret = SumSizes(scan[c].listed)


(***************************************************************************)
(* C32: when updateAllFiles completes and no other scan was in flight, the  *)
(* file list holds exactly the files that scan found, each once: the        *)
(* records of the previous scan are replaced, not merged.                   *)
(***************************************************************************)
C32_ScanReplacesTheList ==
  \A c \in Callers :
    FilesScanReturnedAlone(c)
      => /\ Range(scan[c].out) = scan[c].listed
         /\ \A i, j \in 1..Len(scan[c].out) : scan[c].out[i] = scan[c].out[j] => i = j

\* a scan that found the list of an earlier scan in place and returned two
\* records
C32_Witness ==
  /\ FilesScanReturnedAlone("tick")
  /\ scan["tick"].refill
  /\ Len(scan["tick"].out) = 2


(***************************************************************************)
(* C31: whenever an eviction policy reads the file list (the capacity pass  *)
(* sorting it, the TTL pass iterating it), the list is the complete result  *)
(* of one finished scan less the records evicted since, also while a scan   *)
(* started by the other trigger is in progress.                             *)
(***************************************************************************)
C31_ListReadWhole ==
  \A c \in Callers : job[c].pc \in {"settling", "returned"} => job[c].whole


(***************************************************************************)
(* C35: the deletions of one eviction pass run as a batch of bounded        *)
(* concurrency: at every moment the number of directory deletions the pass  *)
(* has in flight is at most the concurrency limit of the DirectoryWorker,   *)
(* however many directories the pass selected.                              *)
(***************************************************************************)
RmsInFlight(c) == Cardinality({ i \in 1..Len(job[c].rms) : job[c].rms[i].st = "pending" })

C35_DeletionsWithinLimit == \A c \in Callers : RmsInFlight(c) <= concurrencyLimit


(***************************************************************************)
(* C36: when a TTL pass and a capacity pass overlap and both schedule the   *)
(* deletion of the same directory, the deletion that finds the directory    *)
(* already gone is benign: it is fulfilled, it does not fail its pass or    *)
(* abort the other deletions of the pass, and neither pass reports an       *)
(* error.                                                                   *)
(***************************************************************************)
\* the pass of c has issued its deletions, and has returned
PassIssued(c) == job[c].pc \in {"settling", "returned"} /\ job[c].rms # <<>>
PassReturned(c) == job[c].pc = "returned" /\ job[c].rms # <<>>

C36_GoneDirectoryIsBenign ==
  \A c \in Callers :
    /\ \A i \in job[c].gone : job[c].rms[i].st = "ok"
    /\ PassIssued(c) => (job[c].errors = 0 /\ ~job[c].threw)
    /\ PassReturned(c) => \A i \in 1..Len(job[c].rms) : job[c].rms[i].st # "pending"
    /\ (PassReturned(c) /\ c = "tick") => job[c].ret >= Cardinality(job[c].gone)

\* both passes scheduled the directory a while the other was under way, the
\* second deletion found it gone, and both passes have returned
C36_Witness ==
  /\ PassReturned("tick")
  /\ PassReturned("timeout")
  /\ \E i \in 1..Len(job["tick"].rms) : \E j \in 1..Len(job["timeout"].rms) :
       /\ job["tick"].rms[i].dir = job["timeout"].rms[j].dir
       /\ job["tick"].rms[i].st = "ok"
       /\ job["timeout"].rms[j].st = "ok"
       /\ (i \in job["tick"].gone) # (j \in job["timeout"].gone)
  /\ job["tick"].ret >= 1

====
